---- MODULE Spec2Model ----
(***************************************************************************)
(* Model of scripts/fetch-authentic-mep-data.py: main() calls              *)
(* fetch_authentic_mep_data(), which enumerates the MEP URLs through the   *)
(* mep_api collaborator, processes the first min(10, N) of them one at a  *)
(* time inside a per-item try/except, and returns a result dictionary     *)
(* that main() prints as JSON.                                             *)
(*                                                                         *)
(* Every collaborator call is one step with two outcomes: it returns or   *)
(* it raises an Exception.  Standard output is the sequence `out` of      *)
(* printed lines; a line is a tuple whose first element names the line.   *)
(* The line of a per-item failure keeps its marker and index; the text of *)
(* the exception message is held in `e`, not in the line.                 *)
(***************************************************************************)
EXTENDS Integers, Sequences, FiniteSets, TLC

\* Largest number of URLs the enumeration returns in the model.
MaxUrls == 11

\* The fixed cap of min(10, len(mep_urls)).
SampleCap == 10

\* Width of the "=" rule printed by main().
RuleWidth == 50

\* The value of a name that is not bound yet: a dictionary or handle, a list,
\* a number (the exit status of a running process included), a message.
None == [unbound |-> TRUE]
NoSeq == <<>>
NoInt == -1
NoStr == ""

Min(a, b) == IF a <= b THEN a ELSE b

\* Messages an exception raised by mep_api.get_mep_urls() may carry.
EnumErrors == {"timeout", "connection refused"}

\* Orders in which the site may list its N URLs (URLs are opaque, here
\* numbered): 1..N or N..1.
Listings(n) == {[k \in 1..n |-> k], [k \in 1..n |-> n + 1 - k]}

\* The message of the exception a failing per-item collaborator step raises.
StepError(step) ==
    CASE step = "mep" -> "cannot open MEP page"
      [] step = "get_personal_data" -> "cannot read personal data"
      [] step = "get_committees" -> "cannot read committees"
      [] step = "to_json" -> "cannot serialize MEP"

ItemSteps == {"mep", "get_personal_data", "get_committees", "to_json"}

\* What the collaborator returns for a URL when the call returns.
MepHandle(u) == [handle_of |-> u]
PersonalDataOf(h) == [personal_of |-> h.handle_of]
CommitteesOf(h) == [committees_of |-> h.handle_of]
ToJsonOf(h) == [json_of |-> h.handle_of]

VARIABLES
    pc,             \* position of the single thread of control
    mep_urls,       \* local of fetch_authentic_mep_data
    sample_size,    \* local
    sample_urls,    \* local
    meps_data,      \* local: the accumulator
    it,             \* position of the iterator of enumerate(sample_urls)
    i,              \* loop target: index of the current item
    url,            \* loop target: the current URL
    mep,            \* local: the record handle
    personal_data,  \* local
    committees,     \* local
    e,              \* message of the exception last caught
    result,         \* the dictionary returned to main()
    out,            \* lines written to standard output
    exit_status,    \* exit status of the process, unbound while it runs
    calls,          \* history: get_mep_urls() and mep(url) calls made
    enum,           \* history: outcome of the get_mep_urls() call
    ok,             \* history: ok[k] iff the k-th selected item was appended
    steps_ok,       \* history: steps of the current item that returned
    created         \* history: number of result dictionaries built

vars == <<pc, mep_urls, sample_size, sample_urls, meps_data, it, i, url, mep,
          personal_data, committees, e, result, out, exit_status, calls, enum,
          ok, steps_ok, created>>

locals == <<mep_urls, sample_size, sample_urls, meps_data, it, i, url, mep,
            personal_data, committees>>

Init ==
    /\ pc = "main"
    /\ mep_urls = NoSeq
    /\ sample_size = NoInt
    /\ sample_urls = NoSeq
    /\ meps_data = NoSeq
    /\ it = 0
    /\ i = NoInt
    /\ url = NoInt
    /\ mep = None
    /\ personal_data = None
    /\ committees = None
    /\ e = NoStr
    /\ result = None
    /\ out = <<>>
    /\ exit_status = NoInt
    /\ calls = <<>>
    /\ enum = [kind |-> "pending"]
    /\ ok = <<>>
    /\ steps_ok = {}
    /\ created = 0

(***************************************************************************)
(* Pure parts of fetch_authentic_mep_data.                                 *)
(***************************************************************************)

\* sample_size = min(10, len(mep_urls))
SampleSize_NoCap(n) == n
SampleSize(n) == Min(SampleCap, n)

\* sample_urls = mep_urls[:sample_size]
SampleUrls_Tail(urls, n) == SubSeq(urls, Len(urls) - n + 1, Len(urls))
SampleUrls(urls, n) == SubSeq(urls, 1, n)

\* mep_data = {"url": ..., "personal_data": ..., "committees": ..., "full_json": ...}
MepData(u, pd, cm, js) ==
    [url |-> u, personal_data |-> pd, committees |-> cm, full_json |-> js]

\* meps_data.append(mep_data)
AppendRecord_Front(acc, r) == <<r>> \o acc
AppendRecord(acc, r) == Append(acc, r)

\* The dictionary of the empty-enumeration return.
EmptyResult == [error |-> "No MEP URLs found"]

\* The dictionary of the outer except clause.
FatalResult_Generic(msg) == [error |-> "Failed to fetch MEP data", success |-> FALSE]
FatalResult(msg) == [error |-> msg, success |-> FALSE]

\* The dictionary built after the loop.
SuccessResult_Attempted(urls, data, size) ==
    [total_urls_found |-> Len(urls), sample_processed |-> size,
     sample_data |-> data, success |-> TRUE]
SuccessResult(urls, data, size) ==
    [total_urls_found |-> Len(urls), sample_processed |-> Len(data),
     sample_data |-> data, success |-> TRUE]

\* json.dumps(result, indent=2, default=str): the JSON text, as the mapping
\* from each key to the text of its value.
JsonBool(b) == IF b THEN "true" ELSE "false"
JsonDumps(r) == [k \in DOMAIN r |-> IF k = "success" THEN JsonBool(r[k]) ELSE r[k]]

\* The three print calls of main(); "\n" + "="*50 is a blank line and a rule.
MainLines_DumpFirst(r) ==
    << <<"json", JsonDumps(r)>>, <<"blank">>, <<"rule", RuleWidth>>, <<"RESULT:">> >>
MainLines(r) ==
    << <<"blank">>, <<"rule", RuleWidth>>, <<"RESULT:">>, <<"json", JsonDumps(r)>> >>

\* The exit status of a process whose main() returned.
ExitStatus_BySuccess(r) == IF "success" \in DOMAIN r /\ r.success THEN 0 ELSE 1
ExitStatus(r) == 0

(***************************************************************************)
(* fetch_authentic_mep_data                                                *)
(***************************************************************************)

\* main() calls fetch_authentic_mep_data(); the two opening prints.
Enter ==
    /\ pc = "main"
    /\ out' = out \o << <<"fetching">>, <<"getting">> >>
    /\ pc' = "get_mep_urls"
    /\ UNCHANGED <<locals, e, result, exit_status, calls, enum, ok, steps_ok, created>>

\* mep_api.get_mep_urls() raises: the outer except clause prints and returns.
GetMepUrlsRaises ==
    /\ pc = "get_mep_urls"
    /\ \E msg \in EnumErrors :
        /\ e' = msg
        /\ enum' = [kind |-> "raised", msg |-> msg]
        /\ out' = Append(out, <<"fatal", msg>>)
        /\ result' = FatalResult(msg)
    /\ calls' = Append(calls, <<"get_mep_urls">>)
    /\ created' = created + 1
    /\ pc' = "returned"
    /\ UNCHANGED <<locals, exit_status, ok, steps_ok>>

\* mep_api.get_mep_urls() returns an empty list.
GetMepUrlsEmpty ==
    /\ pc = "get_mep_urls"
    /\ mep_urls' = <<>>
    /\ enum' = [kind |-> "returned", n |-> 0, urls |-> <<>>]
    /\ calls' = Append(calls, <<"get_mep_urls">>)
    /\ out' = out \o << <<"found", 0>>, <<"no urls">> >>
    /\ result' = EmptyResult
    /\ created' = created + 1
    /\ pc' = "returned"
    /\ UNCHANGED <<sample_size, sample_urls, meps_data, it, i, url, mep,
                   personal_data, committees, e, exit_status, ok, steps_ok>>

\* mep_api.get_mep_urls() returns N > 0 URLs; the sample is cut and the
\* accumulator created.
GetMepUrlsReturns ==
    /\ pc = "get_mep_urls"
    /\ \E n \in 1..MaxUrls : \E urls \in Listings(n) :
        /\ mep_urls' = urls
        /\ enum' = [kind |-> "returned", n |-> n, urls |-> urls]
        /\ sample_size' = SampleSize(n)
        /\ sample_urls' = SampleUrls(urls, SampleSize(n))
        /\ out' = out \o << <<"found", n>>, <<"testing", SampleSize(n)>> >>
    /\ calls' = Append(calls, <<"get_mep_urls">>)
    /\ meps_data' = <<>>
    /\ it' = 0
    /\ pc' = "for"
    /\ UNCHANGED <<i, url, mep, personal_data, committees, e, result,
                   exit_status, ok, steps_ok, created>>

\* for i, url in enumerate(sample_urls): the next item, and its first print.
ForNext ==
    /\ pc = "for"
    /\ it < Len(sample_urls)
    /\ i' = it
    /\ url' = sample_urls[it + 1]
    /\ it' = it + 1
    /\ out' = Append(out, <<"processing", it + 1, sample_size, sample_urls[it + 1]>>)
    /\ steps_ok' = {}
    /\ pc' = "mep"
    /\ UNCHANGED <<mep_urls, sample_size, sample_urls, meps_data, mep,
                   personal_data, committees, e, result, exit_status, calls,
                   enum, ok, created>>

\* The iterator is exhausted: the result is built and returned.
ForEnd ==
    /\ pc = "for"
    /\ it >= Len(sample_urls)
    /\ result' = SuccessResult(mep_urls, meps_data, sample_size)
    /\ created' = created + 1
    /\ pc' = "returned"
    /\ UNCHANGED <<locals, e, out, exit_status, calls, enum, ok, steps_ok>>

\* except Exception as e: print the failure and continue with the next item.
ItemExcept_Abort(step) ==
    /\ e' = StepError(step)
    /\ out' = Append(out, <<"fatal", StepError(step)>>)
    /\ ok' = Append(ok, FALSE)
    /\ result' = FatalResult(StepError(step))
    /\ created' = created + 1
    /\ pc' = "returned"
    /\ UNCHANGED <<mep_urls, sample_size, sample_urls, meps_data, it, i, url,
                   exit_status, enum, steps_ok>>
ItemExcept(step) ==
    /\ e' = StepError(step)
    /\ out' = Append(out, <<"failed", i + 1>>)
    /\ ok' = Append(ok, FALSE)
    /\ pc' = "for"
    /\ UNCHANGED <<mep_urls, sample_size, sample_urls, meps_data, it, i, url,
                   result, exit_status, enum, steps_ok, created>>

\* mep = mep_api.mep(url)
MepReturns ==
    /\ pc = "mep"
    /\ mep' = MepHandle(url)
    /\ calls' = Append(calls, <<"mep", url>>)
    /\ steps_ok' = steps_ok \cup {"mep"}
    /\ pc' = "get_personal_data"
    /\ UNCHANGED <<mep_urls, sample_size, sample_urls, meps_data, it, i, url,
                   personal_data, committees, e, result, out, exit_status,
                   enum, ok, created>>

MepRaises ==
    /\ pc = "mep"
    /\ calls' = Append(calls, <<"mep", url>>)
    /\ ItemExcept("mep")
    /\ UNCHANGED <<mep, personal_data, committees>>

\* personal_data = mep.get_personal_data()
GetPersonalDataReturns ==
    /\ pc = "get_personal_data"
    /\ personal_data' = PersonalDataOf(mep)
    /\ steps_ok' = steps_ok \cup {"get_personal_data"}
    /\ pc' = "get_committees"
    /\ UNCHANGED <<mep_urls, sample_size, sample_urls, meps_data, it, i, url,
                   mep, committees, e, result, out, exit_status, calls, enum,
                   ok, created>>

GetPersonalDataRaises ==
    /\ pc = "get_personal_data"
    /\ ItemExcept("get_personal_data")
    /\ UNCHANGED <<mep, personal_data, committees, calls>>

\* committees = mep.get_committees()
GetCommitteesReturns ==
    /\ pc = "get_committees"
    /\ committees' = CommitteesOf(mep)
    /\ steps_ok' = steps_ok \cup {"get_committees"}
    /\ pc' = "to_json"
    /\ UNCHANGED <<mep_urls, sample_size, sample_urls, meps_data, it, i, url,
                   mep, personal_data, e, result, out, exit_status, calls,
                   enum, ok, created>>

GetCommitteesRaises_Swallowed ==
    /\ pc = "get_committees"
    /\ pc' = "to_json"
    /\ e' = StepError("get_committees")
    /\ UNCHANGED <<locals, result, out, exit_status, calls, enum, ok, steps_ok,
                   created>>
GetCommitteesRaises ==
    /\ pc = "get_committees"
    /\ ItemExcept("get_committees")
    /\ UNCHANGED <<mep, personal_data, committees, calls>>

\* mep_json = mep.to_json(); the record is built and appended.
ToJsonReturns ==
    /\ pc = "to_json"
    /\ meps_data' = AppendRecord(meps_data,
                        MepData(url, personal_data, committees, ToJsonOf(mep)))
    /\ steps_ok' = steps_ok \cup {"to_json"}
    /\ out' = Append(out, <<"processed", i + 1>>)
    /\ ok' = Append(ok, TRUE)
    /\ pc' = "for"
    /\ UNCHANGED <<mep_urls, sample_size, sample_urls, it, i, url, mep,
                   personal_data, committees, e, result, exit_status, calls,
                   enum, created>>

ToJsonRaises ==
    /\ pc = "to_json"
    /\ ItemExcept("to_json")
    /\ UNCHANGED <<mep, personal_data, committees, calls>>

(***************************************************************************)
(* main                                                                    *)
(***************************************************************************)

\* The delimiter, the "RESULT:" line and the JSON dump.
MainPrint ==
    /\ pc = "returned"
    /\ out' = out \o MainLines(result)
    /\ pc' = "printed"
    /\ UNCHANGED <<locals, e, result, exit_status, calls, enum, ok, steps_ok, created>>

\* main() returns and the interpreter exits.
Exit ==
    /\ pc = "printed"
    /\ exit_status' = ExitStatus(result)
    /\ pc' = "exited"
    /\ UNCHANGED <<locals, e, result, out, calls, enum, ok, steps_ok, created>>

Next ==
    \/ Enter
    \/ GetMepUrlsRaises
    \/ GetMepUrlsEmpty
    \/ GetMepUrlsReturns
    \/ ForNext
    \/ ForEnd
    \/ MepReturns
    \/ MepRaises
    \/ GetPersonalDataReturns
    \/ GetPersonalDataRaises
    \/ GetCommitteesReturns
    \/ GetCommitteesRaises
    \/ ToJsonReturns
    \/ ToJsonRaises
    \/ MainPrint
    \/ Exit

Spec == Init /\ [][Next]_vars

\* The interpreter keeps running the single thread until main() returns.
LiveSpec == Init /\ [][Next]_vars /\ WF_vars(Next)

TypeOK ==
    /\ pc \in {"main", "get_mep_urls", "for", "mep", "get_personal_data",
               "get_committees", "to_json", "returned", "printed", "exited"}
    /\ it \in 0..SampleCap
    /\ created \in 0..1

(***************************************************************************)
(* Vocabulary of the properties.                                           *)
(***************************************************************************)

\* fetch_authentic_mep_data has returned its result to main().
Returned == pc \in {"returned", "printed", "exited"}

EnumRaised == enum.kind = "raised"
EnumEmpty == enum.kind = "returned" /\ enum.n = 0
EnumNonEmpty == enum.kind = "returned" /\ enum.n > 0

\* Some record handle was opened.
HandleOpened == \E k \in 1..Len(calls) : calls[k][1] = "mep"

\* The record a fully successful fetch of URL u yields.
FullRecord(u) ==
    MepData(u, PersonalDataOf(MepHandle(u)), CommitteesOf(MepHandle(u)),
            ToJsonOf(MepHandle(u)))

UrlsOf(data) == [k \in 1..Len(data) |-> data[k].url]

RECURSIVE IsSubsequence(_, _)
IsSubsequence(s, t) ==
    IF s = <<>> THEN TRUE
    ELSE IF t = <<>> THEN FALSE
    ELSE IF Head(s) = Head(t) THEN IsSubsequence(Tail(s), Tail(t))
    ELSE IsSubsequence(s, Tail(t))

IsPrefix(s, t) == Len(s) <= Len(t) /\ s = SubSeq(t, 1, Len(s))

\* The full records of the positions 1..Len(flags) of urls whose flag is set,
\* in the order of urls.
RECURSIVE RecordsOfSucceeded(_, _)
RecordsOfSucceeded(urls, flags) ==
    IF flags = <<>> THEN <<>>
    ELSE LET n == Len(flags)
             before == RecordsOfSucceeded(urls, SubSeq(flags, 1, n - 1))
         IN  IF flags[n] THEN Append(before, FullRecord(urls[n])) ELSE before

Failures(flags) == Cardinality({k \in 1..Len(flags) : ~flags[k]})

\* The calls a run over the listing urls makes when it visits the first
\* min(10, N) URLs once each, in order.
ExpectedCalls(urls) ==
    <<<<"get_mep_urls">>>> \o
    [k \in 1..Min(SampleCap, Len(urls)) |-> <<"mep", urls[k]>>]

KindsOf(lines) == [k \in 1..Len(lines) |-> lines[k][1]]
Count(kinds, kind) == Cardinality({k \in 1..Len(kinds) : kinds[k] = kind})

(***************************************************************************)
(* C1  An empty enumeration yields a result with success = false, a        *)
(* non-empty error, no (or an empty) sample_data, and opens no handle.     *)
(***************************************************************************)
C1_EmptyEnumerationFails ==
    (Returned /\ EnumEmpty) =>
        /\ "success" \in DOMAIN result
        /\ result.success = FALSE
        /\ "error" \in DOMAIN result
        /\ result.error # ""
        /\ ("sample_data" \in DOMAIN result => result.sample_data = <<>>)
        /\ ~HandleOpened

(***************************************************************************)
(* C2  When the enumeration raises, the result is exactly                  *)
(* {error: <the raised message>, success: false}, with no sample_data, and *)
(* no item is processed and no handle opened.                              *)
(***************************************************************************)
C2_EnumerationRaises ==
    (Returned /\ EnumRaised) =>
        /\ DOMAIN result = {"error", "success"}
        /\ result.success = FALSE
        /\ result.error = enum.msg
        /\ ~HandleOpened
        /\ ok = <<>>
        /\ it = 0

C2_Witness ==
    pc = "exited" /\ EnumRaised /\ enum.msg = "timeout" /\ result.error = "timeout"

(***************************************************************************)
(* C3  For a non-empty enumeration of N URLs the returned result has       *)
(* sample_processed = len(sample_data) <= min(10, N), and the accumulator  *)
(* never holds more than min(10, N) records during the loop.               *)
(***************************************************************************)
C3_SampleBound ==
    EnumNonEmpty =>
        /\ Len(meps_data) <= Min(10, enum.n)
        /\ Returned =>
            /\ result.total_urls_found = enum.n
            /\ result.sample_processed = Len(result.sample_data)
            /\ Len(result.sample_data) <= Min(10, result.total_urls_found)

C3_Witness ==
    /\ pc = "exited"
    /\ EnumNonEmpty
    /\ enum.n > 10
    /\ result.sample_processed = 10

(***************************************************************************)
(* C4  After a non-empty enumeration every selected item is attempted and  *)
(* the result has success = true whatever the number of per-item failures; *)
(* if every item failed, sample_processed = 0 and sample_data is empty.    *)
(***************************************************************************)
C4_ItemFailuresNotFatal ==
    (Returned /\ EnumNonEmpty) =>
        /\ "success" \in DOMAIN result
        /\ result.success = TRUE
        /\ Len(ok) = Min(10, enum.n)
        /\ (\A k \in 1..Len(ok) : ~ok[k]) =>
            /\ result.sample_processed = 0
            /\ result.sample_data = <<>>

C4_Witness ==
    /\ pc = "exited"
    /\ EnumNonEmpty
    /\ Len(ok) = 10
    /\ \A k \in 1..Len(ok) : ~ok[k]
    /\ result.success = TRUE

(***************************************************************************)
(* C5  The URLs of the records in the accumulator (and in sample_data) are *)
(* a subsequence of the first min(10, N) enumerated URLs, in the same      *)
(* relative order; a failed item leaves no entry behind.                   *)
(***************************************************************************)
C5_OrderPreserved ==
    EnumNonEmpty =>
        /\ IsSubsequence(UrlsOf(meps_data),
                         SubSeq(enum.urls, 1, Min(10, enum.n)))
        /\ Len(meps_data) = Len(ok) - Failures(ok)
        /\ Returned => result.sample_data = meps_data

C5_Witness ==
    /\ pc = "exited"
    /\ EnumNonEmpty
    /\ enum.n > 10
    /\ enum.urls[1] > enum.urls[2]
    /\ ok[1] /\ ~ok[2] /\ ok[3]
    /\ Len(result.sample_data) >= 2

(***************************************************************************)
(* C6  After a run over N > 0 URLs, sample_data holds the record of        *)
(* position k exactly when k <= min(10, N) and the fetch of position k     *)
(* succeeded, and sample_processed = min(10, N) - number of failed items.  *)
(***************************************************************************)
C6_ExactlyTheSucceeded ==
    (Returned /\ EnumNonEmpty) =>
        /\ Len(ok) = Min(10, enum.n)
        /\ result.sample_data = RecordsOfSucceeded(enum.urls, ok)
        /\ result.sample_processed = Min(10, enum.n) - Failures(ok)

C6_Witness ==
    /\ pc = "exited"
    /\ EnumNonEmpty
    /\ enum.n > 10
    /\ \A k \in 1..Len(ok) : ok[k] <=> (k # 4)
    /\ result.sample_processed = 9
    /\ Len(result.sample_data) = 9

(***************************************************************************)
(* C7  Whatever the collaborator calls do (return or raise), the run ends: *)
(* the result is printed and the process exits with status 0.              *)
(***************************************************************************)
C7_TerminatesWithZero ==
    <>[](/\ pc = "exited"
         /\ exit_status = 0
         /\ out # <<>>
         /\ out[Len(out)] = <<"json", JsonDumps(result)>>)

C7_Witness ==
    /\ pc = "exited"
    /\ exit_status = 0
    /\ EnumRaised
    /\ result.success = FALSE

(***************************************************************************)
(* C8 as stated: the result is built and printed once, last, and the JSON  *)
(* dump comes immediately after the delimiter line.                        *)
(***************************************************************************)
C8_DumpRightAfterRule ==
    pc = "exited" =>
        /\ created = 1
        /\ Count(KindsOf(out), "json") = 1
        /\ \E k \in 1..(Len(out) - 1) :
            /\ out[k][1] = "rule"
            /\ out[k + 1][1] = "json"
            /\ k + 1 = Len(out)

(***************************************************************************)
(* C8 amended: the result is built once and printed once; the output ends  *)
(* with the blank line, the delimiter line, the "RESULT:" line and the     *)
(* JSON dump of the result, in that order; nothing is printed, no          *)
(* collaborator is called and no result is built after the delimiter.      *)
(***************************************************************************)
C8_PrintedInv ==
    /\ created <= 1
    /\ Returned => created = 1
    /\ pc \notin {"printed", "exited"} =>
        /\ Count(KindsOf(out), "rule") = 0
        /\ Count(KindsOf(out), "json") = 0
    /\ pc \in {"printed", "exited"} =>
        /\ Len(out) >= 4
        /\ SubSeq(out, Len(out) - 3, Len(out)) =
             << <<"blank">>, <<"rule", 50>>, <<"RESULT:">>,
                <<"json", JsonDumps(result)>> >>
        /\ Count(KindsOf(out), "rule") = 1
        /\ Count(KindsOf(out), "json") = 1
        /\ Count(KindsOf(out), "RESULT:") = 1

C8_PrintedStep ==
    pc \in {"printed", "exited"} =>
        /\ out' = out
        /\ calls' = calls
        /\ result' = result
        /\ created' = created
        /\ pc' = "exited"

C8_ResultPrintedLast == []C8_PrintedInv /\ [][C8_PrintedStep]_vars

C8_Witness ==
    /\ pc = "exited"
    /\ EnumNonEmpty
    /\ Len(out) > 10
    /\ out[Len(out) - 1] = <<"RESULT:">>
    /\ out[Len(out)][1] = "json"

(***************************************************************************)
(* C9  get_mep_urls() is called once, first; then a handle is opened once  *)
(* for each of the first min(10, N) URLs, in enumeration order, also after *)
(* earlier items failed, and for no other URL.                             *)
(***************************************************************************)
C9_SequentialNoRetry ==
    /\ pc \in {"main", "get_mep_urls"} => calls = <<>>
    /\ (EnumRaised \/ EnumEmpty) => calls = <<<<"get_mep_urls">>>>
    /\ EnumNonEmpty =>
        /\ IsPrefix(calls, ExpectedCalls(enum.urls))
        /\ Returned => calls = ExpectedCalls(enum.urls)
        /\ pc = "mep" => Len(calls) = it
        /\ pc \in {"for", "get_personal_data", "get_committees", "to_json"} =>
                Len(calls) = it + 1

C9_Witness ==
    /\ pc = "exited"
    /\ EnumNonEmpty
    /\ enum.n > 10
    /\ Len(calls) = 11
    /\ ~ok[1] /\ ~ok[2]
    /\ calls[4] = <<"mep", enum.urls[3]>>

(***************************************************************************)
(* C10  A record is appended only by the step in which the fourth of the   *)
(* four collaborator steps of the item returns, and it is the full record  *)
(* of that item; a failing step leaves the accumulator as it was; records  *)
(* already appended are never removed or changed.                          *)
(***************************************************************************)
C10_RecordsInv ==
    EnumNonEmpty =>
        \A k \in 1..Len(meps_data) : meps_data[k] = FullRecord(meps_data[k].url)

C10_AppendStep ==
    (pc # "get_mep_urls" /\ meps_data' # meps_data) =>
        /\ pc = "to_json"
        /\ steps_ok' = ItemSteps
        /\ meps_data' = Append(meps_data, FullRecord(url))

C10_FailStep ==
    (Len(ok') = Len(ok) + 1 /\ ~ok'[Len(ok')]) =>
        /\ meps_data' = meps_data
        /\ steps_ok' # ItemSteps

C10_AllOrNothing ==
    /\ []C10_RecordsInv
    /\ [][C10_AppendStep]_vars
    /\ [][C10_FailStep]_vars
    /\ [][EnumNonEmpty => IsPrefix(meps_data, meps_data')]_vars

C10_Witness ==
    /\ pc = "for"
    /\ Len(ok) = 3
    /\ ok[1] /\ ~ok[2] /\ ~ok[3]
    /\ steps_ok = {"mep", "get_personal_data", "get_committees"}
    /\ Len(meps_data) = 1
    /\ meps_data[1] = FullRecord(sample_urls[1])
====
